---- MODULE Spec2Model ----
(***************************************************************************)
(* Model of the argus logging module: the module-level state of            *)
(* log_functions.py (the file handler, the log file, the retention limit,  *)
(* the registered exit probes), the JSON formatter of formatters.py, and   *)
(* the streaming JSON file handler the two drive.                          *)
(*                                                                         *)
(* Text is modelled as a sequence of pieces (tuples of strings); a file    *)
(* is an inode holding the sequence of text tokens written to it, and a    *)
(* directory entry maps a path to an inode, so that unlinking a file does  *)
(* not destroy the stream of a handler that still has it open.             *)
(***************************************************************************)
EXTENDS Integers, Sequences, FiniteSets, TLC

VARIABLES fs_dir, fs_data, handlers, logger_handlers, logger_level,
          _file_handler, _log_file, _max_logs, debug_functions,
          raised, calls, op, steps

\* fs_dir           path -> inode, for the files that exist
\* fs_data          inode -> the text written to it
\* handlers         every JSONFileHandler created so far; its index is its identity
\* logger_handlers  the file handlers attached to the ArgusLogger logger, in
\*                  order (console handlers write to the terminal only and
\*                  hold none of this state)
\* logger_level     logger.level
\* _file_handler, _log_file, _max_logs, debug_functions   the module globals
\* raised           the exception the last operation ended with, if any
\* calls            the log() calls the last operation made
\* op               the last operation and its arguments
\* steps            the number of operations performed
vars == <<fs_dir, fs_data, handlers, logger_handlers, logger_level,
          _file_handler, _log_file, _max_logs, debug_functions,
          raised, calls, op, steps>>

----------------------------------------------------------------------------
(* Bounds of the model *)

MaxSteps == 5
MaxHandlers == 3
MaxProbes == 2

----------------------------------------------------------------------------
(* Program constants *)

DEBUG == 10
INFO == 20
WARNING == 30
ERROR == 40
CRITICAL == 50

NoHandler == 0
NoPath == <<>>
NoError == "none"

timestamp == <<"2">>
logger_name == "ArgusLogger"

getLevelName(level) ==
    CASE level = DEBUG -> "DEBUG"
      [] level = INFO -> "INFO"
      [] level = WARNING -> "WARNING"
      [] level = ERROR -> "ERROR"
      [] level = CRITICAL -> "CRITICAL"
      [] OTHER -> "Level"

----------------------------------------------------------------------------
(* Text: file names, paths, ordering *)

Ord == [c \in {".", "/", "1", "2", "3", "_", "a", "g", "l", "o", "t", "x", "z"} |->
          CASE c = "." -> 46 [] c = "/" -> 47
            [] c = "1" -> 49 [] c = "2" -> 50 [] c = "3" -> 51
            [] c = "_" -> 95 [] c = "a" -> 97 [] c = "g" -> 103
            [] c = "l" -> 108 [] c = "o" -> 111 [] c = "t" -> 116
            [] c = "x" -> 120 [] c = "z" -> 122]

RECURSIVE StrLess(_, _)
StrLess(a, b) ==
    IF b = <<>> THEN FALSE
    ELSE IF a = <<>> THEN TRUE
    ELSE IF Ord[Head(a)] < Ord[Head(b)] THEN TRUE
    ELSE IF Ord[Head(a)] > Ord[Head(b)] THEN FALSE
    ELSE StrLess(Tail(a), Tail(b))

endswith(s, suffix) ==
    /\ Len(s) >= Len(suffix)
    /\ SubSeq(s, Len(s) - Len(suffix) + 1, Len(s)) = suffix

LogSuffix == <<".", "l", "o", "g">>

path_join(directory, fname) == directory \o <<"/">> \o fname
dirname(path) == <<path[1]>>
PathName(path) == SubSeq(path, 3, Len(path))

RECURSIVE sorted(_)
sorted(S) ==
    IF S = {} THEN <<>>
    ELSE LET m == CHOOSE x \in S : \A y \in S \ {x} : StrLess(PathName(x), PathName(y))
         IN <<m>> \o sorted(S \ {m})

iterdir(dir, log_dir) == {p \in DOMAIN dir : dirname(p) = log_dir}

----------------------------------------------------------------------------
(* Ordered mappings (Python dicts) as sequences of <<key, value>> pairs *)

HasKey(d, k) == \E i \in 1..Len(d) : d[i][1] = k

DictGet(d, k, default) ==
    IF HasKey(d, k)
    THEN d[CHOOSE i \in 1..Len(d) : d[i][1] = k][2]
    ELSE default

DictSet(d, k, v) ==
    IF HasKey(d, k)
    THEN [i \in 1..Len(d) |-> IF d[i][1] = k THEN <<k, v>> ELSE d[i]]
    ELSE Append(d, <<k, v>>)

RECURSIVE DictUpdate(_, _)
DictUpdate(d, other) ==
    IF other = <<>> THEN d
    ELSE DictUpdate(DictSet(d, Head(other)[1], Head(other)[2]), Tail(other))

DictPop(d, k) == SelectSeq(d, LAMBDA kv : kv[1] # k)

----------------------------------------------------------------------------
(* formatters.py: JSONFormatter *)

\* A value of extra_data: ser says whether json.dumps accepts it.
_is_json_serializable(obj) == obj.ser

SerializableExtra(extra_data) ==
    SelectSeq(extra_data, LAMBDA kv : _is_json_serializable(kv[2]))

\* format with the level name written where the message belongs.
format_levelname(record) ==
    [t |-> "json",
     v |-> [level |-> getLevelName(record.levelno),
            message |-> <<getLevelName(record.levelno)>>,
            caller_module |-> DictGet(record.attrs, "caller_module", "unknown"),
            caller_func |-> DictGet(record.attrs, "caller_func", "unknown"),
            caller_lineno |-> DictGet(record.attrs, "caller_lineno", 0),
            logger |-> record.name]]

\* format that leaves extra_data out altogether as soon as one of its values
\* cannot be serialized.
format_dropall(record) ==
    LET base == [level |-> getLevelName(record.levelno),
                 message |-> record.msg,
                 caller_module |-> DictGet(record.attrs, "caller_module", "unknown"),
                 caller_func |-> DictGet(record.attrs, "caller_func", "unknown"),
                 caller_lineno |-> DictGet(record.attrs, "caller_lineno", 0),
                 logger |-> record.name]
         extra_data == DictGet(record.attrs, "extra_data", <<>>)
    IN IF extra_data # <<>> /\ SerializableExtra(extra_data) = extra_data
       THEN [t |-> "json",
             v |-> [level |-> base.level, message |-> base.message,
                    caller_module |-> base.caller_module,
                    caller_func |-> base.caller_func,
                    caller_lineno |-> base.caller_lineno,
                    logger |-> base.logger,
                    extra_data |-> extra_data]]
       ELSE [t |-> "json", v |-> base]

\* format with empty defaults for the caller fields.
format_emptydefault(record) ==
    LET base == [level |-> getLevelName(record.levelno),
                 message |-> record.msg,
                 caller_module |-> DictGet(record.attrs, "caller_module", ""),
                 caller_func |-> DictGet(record.attrs, "caller_func", ""),
                 caller_lineno |-> DictGet(record.attrs, "caller_lineno", -1),
                 logger |-> record.name]
         extra_data == DictGet(record.attrs, "extra_data", <<>>)
         serializable_extra == SerializableExtra(extra_data)
    IN IF serializable_extra # <<>>
       THEN [t |-> "json",
             v |-> [level |-> base.level, message |-> base.message,
                    caller_module |-> base.caller_module,
                    caller_func |-> base.caller_func,
                    caller_lineno |-> base.caller_lineno,
                    logger |-> base.logger,
                    extra_data |-> serializable_extra]]
       ELSE [t |-> "json", v |-> base]

\* A log record: levelno, msg, name, and the attributes set from `extra`.
format(record) ==
    LET base == [level |-> getLevelName(record.levelno),
                 message |-> record.msg,
                 caller_module |-> DictGet(record.attrs, "caller_module", "unknown"),
                 caller_func |-> DictGet(record.attrs, "caller_func", "unknown"),
                 caller_lineno |-> DictGet(record.attrs, "caller_lineno", 0),
                 logger |-> record.name]
         extra_data == DictGet(record.attrs, "extra_data", <<>>)
         serializable_extra == SerializableExtra(extra_data)
    IN IF serializable_extra # <<>>
       THEN [t |-> "json",
             v |-> [level |-> base.level, message |-> base.message,
                    caller_module |-> base.caller_module,
                    caller_func |-> base.caller_func,
                    caller_lineno |-> base.caller_lineno,
                    logger |-> base.logger,
                    extra_data |-> serializable_extra]]
       ELSE [t |-> "json", v |-> base]

----------------------------------------------------------------------------
(* The text of the log document: literal pieces and serialized objects *)

Lit(s) == [t |-> "lit", s |-> s]
LogsOpen == Lit("{\"logs\": [")
Comma == Lit(", ")
StateOpen == Lit("], \"state\": [")
DiagOpen == Lit("], \"diagnostics_state\": ")
DocClose == Lit("}")

IsJson(tok) == tok.t = "json"

RECURSIVE JoinComma(_)
JoinComma(entries) ==
    IF entries = <<>> THEN <<>>
    ELSE IF Len(entries) = 1 THEN <<entries[1]>>
    ELSE <<Head(entries), Comma>> \o JoinComma(Tail(entries))

\* Reads the elements of a JSON array starting at position i; the array ends
\* at the first token that is neither an element nor a separating comma.
RECURSIVE ParseArray(_, _, _)
ParseArray(s, i, acc) ==
    IF i > Len(s) THEN [ok |-> FALSE, items |-> acc, next |-> i]
    ELSE IF acc = <<>>
         THEN IF IsJson(s[i]) THEN ParseArray(s, i + 1, <<s[i].v>>)
              ELSE [ok |-> s[i] # Comma, items |-> acc, next |-> i]
         ELSE IF s[i] = Comma
              THEN IF i + 1 <= Len(s) /\ IsJson(s[i + 1])
                   THEN ParseArray(s, i + 2, Append(acc, s[i + 1].v))
                   ELSE [ok |-> FALSE, items |-> acc, next |-> i]
              ELSE [ok |-> ~IsJson(s[i]), items |-> acc, next |-> i]

Invalid == [valid |-> FALSE]

\* json.loads of a whole file: a valid document or Invalid.
ParseDocument(s) ==
    IF Len(s) < 1 \/ s[1] # LogsOpen THEN Invalid
    ELSE LET a == ParseArray(s, 2, <<>>)
         IN IF ~a.ok \/ s[a.next] # StateOpen THEN Invalid
            ELSE LET b == ParseArray(s, a.next + 1, <<>>)
                 IN IF \/ ~b.ok
                       \/ s[b.next] # DiagOpen
                       \/ Len(s) # b.next + 2
                       \/ ~IsJson(s[b.next + 1])
                       \/ s[b.next + 2] # DocClose
                    THEN Invalid
                    ELSE [valid |-> TRUE, logs |-> a.items, state |-> b.items,
                          diagnostics_state |-> s[b.next + 1].v]

----------------------------------------------------------------------------
(* The program state as one record, so that the calls an operation makes   *)
(* can be chained: dir/data the file system, hs the handler objects, lh    *)
(* logger.handlers, lvl logger.level, fh/lf/ml/dbg the module globals,     *)
(* calls the log() calls made by the operation in progress.                *)

World == [dir |-> fs_dir, data |-> fs_data, hs |-> handlers,
          lh |-> logger_handlers, lvl |-> logger_level,
          fh |-> _file_handler, lf |-> _log_file, ml |-> _max_logs,
          dbg |-> debug_functions, calls |-> <<>>, raised |-> NoError]

----------------------------------------------------------------------------
(* log_functions.py: _diagnostics_state *)

\* `from __init__ import __version__` executes the package's __init__.py as
\* a top-level module, whose relative import raises ImportError, so the
\* except branch supplies the version.

\* _diagnostics_state that reports the configuration the module starts with.
_diagnostics_state_initial(W) ==
    [t |-> "json",
     v |-> [log_file |-> W.lf,
            max_logs |-> -1,
            log_level |-> ERROR,
            log_level_name |-> getLevelName(ERROR),
            timestamp |-> timestamp,
            diagnostics_version |-> "unknown"]]

_diagnostics_state(W) ==
    [t |-> "json",
     v |-> [log_file |-> W.lf,
            max_logs |-> W.ml,
            log_level |-> W.lvl,
            log_level_name |-> getLevelName(W.lvl),
            timestamp |-> timestamp,
            diagnostics_version |-> "unknown"]]

----------------------------------------------------------------------------
(* JSONFileHandler: the streaming sink (open, emit, close).  A handler    *)
(* object carries three history fields that the program does not have:    *)
(* appended (the records emitted while open), state_arrived (the state    *)
(* entries handed over while open) and close_calls.                       *)

NewHandler(path, ino) ==
    [baseFilename |-> path, stream |-> ino, closed |-> FALSE,
     first_entry |-> TRUE, state_entries |-> <<>>, level |-> 0,
     appended |-> <<>>, state_arrived |-> <<>>, close_calls |-> 0]

\* open(path): creates or truncates the file and writes the opening marker.
JSONFileHandler(W, path) ==
    LET exists == path \in DOMAIN W.dir
        ino == IF exists THEN W.dir[path] ELSE Len(W.data) + 1
    IN [W EXCEPT !.dir = IF exists THEN @ ELSE @ @@ (path :> ino),
                 !.data = IF exists THEN [@ EXCEPT ![ino] = <<LogsOpen>>]
                          ELSE Append(@, <<LogsOpen>>),
                 !.hs = Append(@, NewHandler(path, ino))]

\* append(record): one whole-record write, a comma before all but the first.
emit(W, id, record) ==
    LET h == W.hs[id]
        text == IF h.first_entry THEN <<format(record)>>
                ELSE <<Comma, format(record)>>
    IN IF h.closed THEN W
       ELSE [W EXCEPT !.data[h.stream] = @ \o text,
                      !.hs[id].first_entry = FALSE,
                      !.hs[id].appended = Append(@, record)]

\* close without the already-closed check: every call writes the tail.
close_noguard(W, id) ==
    LET h == W.hs[id]
        text == <<StateOpen>> \o JoinComma(h.state_entries)
                \o <<DiagOpen, _diagnostics_state(W), DocClose>>
    IN [W EXCEPT !.data[h.stream] = @ \o text,
                 !.hs[id].closed = TRUE,
                 !.hs[id].close_calls = @ + 1]

\* close that writes the tail only when a record has been written.
close_skipempty(W, id) ==
    LET h == W.hs[id]
        text == <<StateOpen>> \o JoinComma(h.state_entries)
                \o <<DiagOpen, _diagnostics_state(W), DocClose>>
    IN IF h.closed THEN [W EXCEPT !.hs[id].close_calls = @ + 1]
       ELSE [W EXCEPT !.data[h.stream] = IF h.first_entry THEN @ ELSE @ \o text,
                      !.hs[id].closed = TRUE,
                      !.hs[id].close_calls = @ + 1]

\* close(): closes the logs array, writes state and the snapshot; a second
\* close is a no-op.
close(W, id) ==
    LET h == W.hs[id]
        text == <<StateOpen>> \o JoinComma(h.state_entries)
                \o <<DiagOpen, _diagnostics_state(W), DocClose>>
    IN IF h.closed THEN [W EXCEPT !.hs[id].close_calls = @ + 1]
       ELSE [W EXCEPT !.data[h.stream] = @ \o text,
                      !.hs[id].closed = TRUE,
                      !.hs[id].close_calls = @ + 1]

setLevel(W, id, val) == [W EXCEPT !.hs[id].level = val]

----------------------------------------------------------------------------
(* log_functions.py: the logging functions *)

\* Logger.callHandlers: every attached handler whose level admits the record.
RECURSIVE callHandlers(_, _, _)
\* A console handler: logging.StreamHandler on stderr, no file behind it.
\* Its history field appended holds the records it has printed.
IsConsoleHandler(h) == h.baseFilename = NoPath

StreamHandler(W) == [W EXCEPT !.hs = Append(@, NewHandler(NoPath, 0))]

StreamHandler_emit(W, id, record) ==
    [W EXCEPT !.hs[id].appended = Append(@, record)]

callHandlers(W, ids, record) ==
    IF ids = <<>> THEN W
    ELSE LET id == Head(ids)
             W1 == IF record.levelno >= W.hs[id].level
                   THEN IF IsConsoleHandler(W.hs[id])
                        THEN StreamHandler_emit(W, id, record)
                        ELSE emit(W, id, record)
                   ELSE W
         IN callHandlers(W1, Tail(ids), record)

log(W, level, message, extra_fields, caller) ==
    LET extra == <<<<"caller_module", caller.module>>,
                   <<"caller_func", caller.func>>,
                   <<"caller_lineno", caller.lineno>>>>
                 \o (IF extra_fields # <<>>
                     THEN <<<<"extra_data", extra_fields>>>> ELSE <<>>)
        record == [levelno |-> level, msg |-> message,
                   name |-> logger_name, attrs |-> extra]
        W1 == [W EXCEPT !.calls = Append(@, [level |-> level, message |-> message])]
    IN callHandlers(W1, W1.lh, record)

debug(W, message, extra_fields, caller) ==
    log(W, DEBUG, message, extra_fields, caller)

info(W, message, extra_fields, caller) ==
    log(W, INFO, message, extra_fields, caller)

warning(W, message, extra_fields, caller) ==
    log(W, WARNING, message, DictPop(extra_fields, "warning_type"), caller)

\* error that raises before it logs.
error_raisefirst(W, message, extra_fields, caller) ==
    IF HasKey(extra_fields, "error_type")
    THEN [W EXCEPT !.raised = DictGet(extra_fields, "error_type", NoError).v]
    ELSE log(W, ERROR, message, DictPop(extra_fields, "error_type"), caller)

error(W, message, extra_fields, caller) ==
    LET W1 == log(W, ERROR, message, DictPop(extra_fields, "error_type"), caller)
    IN IF HasKey(extra_fields, "error_type")
       THEN [W1 EXCEPT !.raised = DictGet(extra_fields, "error_type", NoError).v]
       ELSE W1

critical(W, message, extra_fields, caller) ==
    LET W1 == log(W, CRITICAL, message, DictPop(extra_fields, "error_type"), caller)
    IN IF HasKey(extra_fields, "error_type")
       THEN [W1 EXCEPT !.raised = DictGet(extra_fields, "error_type", NoError).v]
       ELSE W1

\* The caller that findCaller reports for a call made by the module itself.
Internal(func) == [module |-> "log_functions.py", func |-> func, lineno |-> 1]

----------------------------------------------------------------------------
(* log_functions.py: decorators *)

\* wrapper that logs the return record in a finally clause.
wrapper_finally(W, func) ==
    LET W1 == debug(W, <<"Calling function: ", func.name>>, <<>>, Internal("wrapper"))
        W2 == debug(W1, <<"Arguments: ", func.args>>, <<>>, Internal("wrapper"))
        W3 == debug(W2, <<"Keyword arguments: ", func.kwargs>>, <<>>,
                    Internal("wrapper"))
    IN IF func.outcome.kind = "return"
       THEN debug(W3, <<"Function ", func.name, " returned: ", func.outcome.value>>,
                  <<>>, Internal("wrapper"))
       ELSE LET W4 == error(W3, <<"Function ", func.name, " raised an exception: ",
                                  func.outcome.text>>, <<>>, Internal("wrapper"))
                W5 == debug(W4, <<"Function ", func.name, " returned: ", "None">>,
                            <<>>, Internal("wrapper"))
            IN [W5 EXCEPT !.raised = func.outcome.e]

wrapper(W, func) ==
    LET W1 == debug(W, <<"Calling function: ", func.name>>, <<>>, Internal("wrapper"))
        W2 == debug(W1, <<"Arguments: ", func.args>>, <<>>, Internal("wrapper"))
        W3 == debug(W2, <<"Keyword arguments: ", func.kwargs>>, <<>>,
                    Internal("wrapper"))
    IN IF func.outcome.kind = "return"
       THEN debug(W3, <<"Function ", func.name, " returned: ", func.outcome.value>>,
                  <<>>, Internal("wrapper"))
       ELSE LET W4 == error(W3, <<"Function ", func.name, " raised an exception: ",
                                  func.outcome.text>>, <<>>, Internal("wrapper"))
            IN [W4 EXCEPT !.raised = func.outcome.e]

\* What the wrapper hands back to its caller.
WrapperResult(func) ==
    IF func.outcome.kind = "return" THEN func.outcome.value ELSE "none"

----------------------------------------------------------------------------
(* log_functions.py: logging management *)

RECURSIVE setLevelAll(_, _, _)
setLevelAll(W, ids, val) ==
    IF ids = <<>> THEN W
    ELSE setLevelAll(setLevel(W, Head(ids), val), Tail(ids), val)

\* log_level that sets the logger's level and leaves the handlers' alone.
log_level_loggeronly(W, val) == [W EXCEPT !.lvl = val]

log_level(W, val) ==
    LET W1 == setLevelAll([W EXCEPT !.lvl = val], W.lh, val)
    IN IF W1.fh # NoHandler THEN setLevel(W1, W1.fh, val) ELSE W1

removeHandler(lh, id) == SelectSeq(lh, LAMBDA x : x # id)

addHandler(lh, id) ==
    IF \E i \in 1..Len(lh) : lh[i] = id THEN lh ELSE Append(lh, id)

\* The handlers of the root logger: nothing in the module ever adds one.
\* disable_console_logging that detaches every stream handler, file handlers
\* included.
disable_console_logging_allstreams(W) == [W EXCEPT !.lh = <<>>]

disable_console_logging(W) ==
    [W EXCEPT !.lh = SelectSeq(@, LAMBDA id : ~IsConsoleHandler(W.hs[id]))]

enable_console_logging(W) ==
    LET W1 == StreamHandler(disable_console_logging(W))
    IN [W1 EXCEPT !.lh = addHandler(@, Len(W1.hs))]

RootHandlers == <<>>

strip(s) == SelectSeq(s, LAMBDA c : c # " ")

----------------------------------------------------------------------------
(* log_functions.py: log directory management *)

get_log_file(W) == IF W.lf = NoPath THEN NoPath ELSE W.lf

\* set_log_directory that detaches the previous handler without closing it.
set_log_directory_noclose(W, directory, prefix) ==
    IF directory = NoPath
    THEN LET W1 == IF W.fh # NoHandler
                   THEN LET Wc == close(W, W.fh)
                        IN info([Wc EXCEPT !.fh = NoHandler],
                                <<"File logging disabled.">>, <<>>,
                                Internal("set_log_directory"))
                   ELSE W
         IN [W1 EXCEPT !.lf = NoPath]
    ELSE LET stripped == strip(prefix)
             pfx == IF stripped # <<>> THEN stripped \o <<"_">> ELSE stripped
             file == path_join(directory, pfx \o timestamp \o LogSuffix)
             W1 == [W EXCEPT !.lf = file]
             W2 == IF W1.fh # NoHandler
                   THEN [W1 EXCEPT !.lh = removeHandler(@, W1.fh)]
                   ELSE W1
             W3 == JSONFileHandler(W2, file)
             id == Len(W3.hs)
             W4 == setLevel([W3 EXCEPT !.fh = id], id, W3.lvl)
             W5 == [W4 EXCEPT !.lh = addHandler(@, id)]
         IN info(W5, <<"File logging enabled. Logs are saved to: ">> \o file,
                 <<>>, Internal("set_log_directory"))

\* set_log_directory that reports the new file before it switches handlers.
set_log_directory_logfirst(W, directory, prefix) ==
    IF directory = NoPath
    THEN LET W1 == IF W.fh # NoHandler
                   THEN LET Wc == close(W, W.fh)
                        IN info([Wc EXCEPT !.fh = NoHandler],
                                <<"File logging disabled.">>, <<>>,
                                Internal("set_log_directory"))
                   ELSE W
         IN [W1 EXCEPT !.lf = NoPath]
    ELSE LET stripped == strip(prefix)
             pfx == IF stripped # <<>> THEN stripped \o <<"_">> ELSE stripped
             file == path_join(directory, pfx \o timestamp \o LogSuffix)
             W0 == info(W, <<"File logging enabled. Logs are saved to: ">> \o file,
                        <<>>, Internal("set_log_directory"))
             W1 == [W0 EXCEPT !.lf = file]
             W2 == IF W1.fh # NoHandler
                   THEN close([W1 EXCEPT !.lh = removeHandler(@, W1.fh)], W1.fh)
                   ELSE W1
             W3 == JSONFileHandler(W2, file)
             id == Len(W3.hs)
             W4 == setLevel([W3 EXCEPT !.fh = id], id, W3.lvl)
         IN [W4 EXCEPT !.lh = addHandler(@, id)]

set_log_directory(W, directory, prefix) ==
    IF directory = NoPath
    THEN LET W1 == IF W.fh # NoHandler
                   THEN LET root == removeHandler(RootHandlers, W.fh)
                            Wc == close(W, W.fh)
                        IN info([Wc EXCEPT !.fh = NoHandler],
                                <<"File logging disabled.">>, <<>>,
                                Internal("set_log_directory"))
                   ELSE W
         IN [W1 EXCEPT !.lf = NoPath]
    ELSE LET stripped == strip(prefix)
             pfx == IF stripped # <<>> THEN stripped \o <<"_">> ELSE stripped
             file == path_join(directory, pfx \o timestamp \o LogSuffix)
             W1 == [W EXCEPT !.lf = file]
             W2 == IF W1.fh # NoHandler
                   THEN close([W1 EXCEPT !.lh = removeHandler(@, W1.fh)], W1.fh)
                   ELSE W1
             W3 == JSONFileHandler(W2, file)
             id == Len(W3.hs)
             W4 == setLevel([W3 EXCEPT !.fh = id], id, W3.lvl)
             W5 == [W4 EXCEPT !.lh = addHandler(@, id)]
         IN info(W5, <<"File logging enabled. Logs are saved to: ">> \o file,
                 <<>>, Internal("set_log_directory"))

\* set_log_directory interrupted by an I/O error: os.makedirs fails, or the
\* new handler cannot open its file.
set_log_directory_fails(W, directory, prefix, fault) ==
    IF fault = "makedirs" THEN [W EXCEPT !.raised = "OSError"]
    ELSE LET stripped == strip(prefix)
             pfx == IF stripped # <<>> THEN stripped \o <<"_">> ELSE stripped
             file == path_join(directory, pfx \o timestamp \o LogSuffix)
             W1 == [W EXCEPT !.lf = file]
             W2 == IF W1.fh # NoHandler
                   THEN close([W1 EXCEPT !.lh = removeHandler(@, W1.fh)], W1.fh)
                   ELSE W1
         IN [W2 EXCEPT !.raised = "OSError"]

\* unlink that leaves the directory entry in place.
unlink_keep(dir, path) == dir

unlink(dir, path) == [p \in DOMAIN dir \ {path} |-> dir[p]]

RECURSIVE RemoveExcess(_, _)
RemoveExcess(W, excess_logs) ==
    IF excess_logs = <<>> THEN W
    ELSE LET old_log == Head(excess_logs)
             W1 == [W EXCEPT !.dir = unlink(@, old_log)]
             W2 == info(W1, <<"Removed old log file: ">> \o old_log, <<>>,
                        Internal("_cleanup_logs"))
         IN IF old_log \notin DOMAIN W.dir
            THEN [W EXCEPT !.raised = "FileNotFoundError"]
            ELSE RemoveExcess(W2, Tail(excess_logs))

\* _cleanup_logs that takes the excess from the end of the sorted list.
_cleanup_logs_newest(W) ==
    IF W.ml < 1 THEN W
    ELSE IF W.lf = NoPath THEN [W EXCEPT !.raised = "TypeError"]
    ELSE LET log_dir == dirname(W.lf)
             log_files == sorted({d \in iterdir(W.dir, log_dir) :
                                     endswith(PathName(d), LogSuffix)})
             keep_count == Len(log_files) - W.ml
         IN IF keep_count > 0
            THEN RemoveExcess(W, SubSeq(log_files, Len(log_files) - keep_count + 1,
                                        Len(log_files)))
            ELSE W

_cleanup_logs(W) ==
    IF W.ml < 1 THEN W
    ELSE IF W.lf = NoPath THEN [W EXCEPT !.raised = "TypeError"]
    ELSE LET log_dir == dirname(W.lf)
             log_files == sorted({d \in iterdir(W.dir, log_dir) :
                                     endswith(PathName(d), LogSuffix)})
             keep_count == Len(log_files) - W.ml
         IN IF keep_count > 0
            THEN RemoveExcess(W, SubSeq(log_files, 1, keep_count))
            ELSE W

\* Another process deleting files of the directory.
ExternalRemove(W, vanished) ==
    [W EXCEPT !.dir = [p \in DOMAIN @ \ vanished |-> @[p]]]

\* _cleanup_logs with the files `vanished` deleted by another process after
\* the directory has been listed and before the first unlink.
_cleanup_logs_raced(W, vanished) ==
    IF W.ml < 1 THEN W
    ELSE IF W.lf = NoPath THEN [W EXCEPT !.raised = "TypeError"]
    ELSE LET log_dir == dirname(W.lf)
             log_files == sorted({d \in iterdir(W.dir, log_dir) :
                                     endswith(PathName(d), LogSuffix)})
             keep_count == Len(log_files) - W.ml
         IN IF keep_count > 0
            THEN RemoveExcess(ExternalRemove(W, vanished),
                              SubSeq(log_files, 1, keep_count))
            ELSE ExternalRemove(W, vanished)

\* max_logs that stores the value given instead of the sentinel.
max_logs_keepval(W, val) ==
    IF val < 1 THEN [W EXCEPT !.ml = val]
    ELSE LET W1 == IF val = 0
                   THEN warning(W, <<"Can't set max_logs to 0, setting to 1 instead">>,
                                <<>>, Internal("max_logs"))
                   ELSE W
             v == IF val = 0 THEN 1 ELSE val
         IN _cleanup_logs([W1 EXCEPT !.ml = v])

max_logs(W, val) ==
    IF val < 1 THEN [W EXCEPT !.ml = -1]
    ELSE LET W1 == IF val = 0
                   THEN warning(W, <<"Can't set max_logs to 0, setting to 1 instead">>,
                                <<>>, Internal("max_logs"))
                   ELSE W
             v == IF val = 0 THEN 1 ELSE val
         IN _cleanup_logs([W1 EXCEPT !.ml = v])

max_logs_raced(W, val, vanished) ==
    IF val < 1 THEN [W EXCEPT !.ml = -1]
    ELSE LET W1 == IF val = 0
                   THEN warning(W, <<"Can't set max_logs to 0, setting to 1 instead">>,
                                <<>>, Internal("max_logs"))
                   ELSE W
             v == IF val = 0 THEN 1 ELSE val
         IN _cleanup_logs_raced([W1 EXCEPT !.ml = v], vanished)

----------------------------------------------------------------------------
(* log_functions.py: exit probes *)

register_debug_function(W, func, log_limit) ==
    LET limit == IF log_limit < 0 THEN DEBUG ELSE log_limit
        W1 == [W EXCEPT !.dbg = Append(@, <<func, limit>>)]
    IN debug(W1, <<"Registered exit logging function: ", func.name>>, <<>>,
             Internal("register_debug_function"))

ObjectName(func) ==
    IF \E i \in 1..Len(func.qualname) : func.qualname[i] = "."
    THEN func.qualname[1]
    ELSE func.name

Str(s) == [ser |-> TRUE, v |-> s]

\* The output of func(): a string is wrapped under "message".
Output(func) ==
    IF func.output.kind = "str"
    THEN <<<<"message", Str(func.output.s)>>>>
    ELSE IF func.output.kind = "dict" THEN func.output.d
    ELSE <<>>

\* The state entry with "object" written over the probe's output.
StateEntry_objectlast(func) ==
    DictUpdate(Output(func), <<<<"object", Str(ObjectName(func))>>>>)

StateEntry(func) ==
    DictUpdate(<<<<"object", Str(ObjectName(func))>>>>, Output(func))

dumps(obj) == [t |-> "json", v |-> obj]

\* The entry inserted at the front of the list instead of the end.
AppendEntry_front(state_entries, entry) == <<entry>> \o state_entries

AppendEntry(state_entries, entry) == Append(state_entries, entry)

\* RunProbes that runs every probe, whatever its log_limit.
RECURSIVE RunProbes_nolimit(_, _)
RunProbes_nolimit(W, funcs) ==
    IF funcs = <<>> \/ W.raised # NoError THEN W
    ELSE LET func == Head(funcs)[1]
             state_entry == StateEntry(func)
         IN IF func.output.kind = "raise"
            THEN [W EXCEPT !.raised = func.output.e]
            ELSE IF \E i \in 1..Len(state_entry) : ~state_entry[i][2].ser
            THEN [W EXCEPT !.raised = "TypeError"]
            ELSE LET W1 == IF W.fh # NoHandler
                           THEN [W EXCEPT !.hs[W.fh].state_entries =
                                            AppendEntry(@, dumps(state_entry)),
                                          !.hs[W.fh].state_arrived =
                                            IF W.hs[W.fh].closed THEN @
                                            ELSE Append(@, state_entry)]
                           ELSE W
                 IN RunProbes_nolimit(W1, Tail(funcs))

RECURSIVE RunProbes(_, _)
RunProbes(W, funcs) ==
    IF funcs = <<>> \/ W.raised # NoError THEN W
    ELSE LET func == Head(funcs)[1]
             log_limit == Head(funcs)[2]
             state_entry == StateEntry(func)
         IN IF log_limit > W.lvl THEN RunProbes(W, Tail(funcs))
            ELSE IF func.output.kind = "raise"
            THEN [W EXCEPT !.raised = func.output.e]
            ELSE IF \E i \in 1..Len(state_entry) : ~state_entry[i][2].ser
            THEN [W EXCEPT !.raised = "TypeError"]
            ELSE LET W1 == IF W.fh # NoHandler
                           THEN [W EXCEPT !.hs[W.fh].state_entries =
                                            AppendEntry(@, dumps(state_entry)),
                                          !.hs[W.fh].state_arrived =
                                            IF W.hs[W.fh].closed THEN @
                                            ELSE Append(@, state_entry)]
                           ELSE W
                 IN RunProbes(W1, Tail(funcs))

run_debug_functions(W) ==
    IF Len(W.dbg) = 0 THEN W
    ELSE LET W1 == info(W, <<"Running registered exit logging functions...">>,
                        <<>>, Internal("run_debug_functions"))
             W2 == RunProbes(W1, W1.dbg)
         IN IF W2.raised = NoError /\ W2.fh # NoHandler
            THEN close(W2, W2.fh) ELSE W2

\* The tests' close_file_handler: closes the module's handler from outside.
close_file_handler(W) ==
    IF W.fh # NoHandler THEN close(W, W.fh) ELSE W

----------------------------------------------------------------------------
(* Inputs *)

Directories == {NoPath, <<"d1">>}
Prefixes == {<<>>, <<"a">>}
Messages == {<<"m1">>, <<"m2">>}
Levels == {DEBUG, INFO, ERROR}
Caller == [module |-> "app.py", func |-> "main", lineno |-> 7]

NoExtra == <<>>
UserId == <<<<"user_id", Str("123")>>>>
ErrorType == <<<<"error_type", [ser |-> FALSE, v |-> "ValueError"]>>>>

Probe1 == [name |-> "status", qualname |-> <<"Worker", ".", "status">>,
           output |-> [kind |-> "dict", d |-> <<<<"status", Str("active")>>>>]]
Probe2 == [name |-> "summary", qualname |-> <<"summary">>,
           output |-> [kind |-> "str", s |-> "Simple string output"]]
Probes == {Probe1, Probe2}

\* A probe whose state mapping holds a value json.dumps cannot serialize.
Probe3 == [name |-> "pool", qualname |-> <<"pool">>,
           output |-> [kind |-> "dict",
                       d |-> <<<<"size", Str("4")>>,
                               <<"conn", [ser |-> FALSE, v |-> "socket"]>>>>]]

\* A probe whose state mapping has its own "object" key, and a probe that
\* raises when it is called.
Probe4 == [name |-> "dump", qualname |-> <<"Cache", ".", "dump">>,
           output |-> [kind |-> "dict",
                       d |-> <<<<"hits", Str("9")>>, <<"object", Str("custom")>>>>]]
Probe5 == [name |-> "broken", qualname |-> <<"broken">>,
           output |-> [kind |-> "raise", e |-> "RuntimeError"]]

\* Decorated functions: the name, the text of the arguments of a call, and
\* what the call does, return a value or raise an exception.
WrappedFunctions ==
    {[name |-> "test_function", args |-> "(1, 2)", kwargs |-> "{'kwarg1': 'test'}",
      outcome |-> [kind |-> "return", value |-> "3"]],
     [name |-> "failing_function", args |-> "()", kwargs |-> "{}",
      outcome |-> [kind |-> "raise", e |-> "ValueError", text |-> "Test exception"]]}

\* Keyword arguments of a log call: exception and warning classes, and a
\* value json.dumps cannot serialize.
WarningType == <<<<"warning_type", [ser |-> FALSE, v |-> "UserWarning"]>>>>
Conn == <<<<"conn", [ser |-> FALSE, v |-> "socket"]>>>>

\* Attributes of a record built with logging.LogRecord and handed to the
\* handler directly: no caller field, or caller_module alone.
BareAttrs == {<<>>, <<<<"caller_module", "test.py">>>>}

\* Files left in the directory by earlier sessions.
OldFiles == {path_join(<<"d1">>, <<"1">> \o LogSuffix),
             path_join(<<"d1">>, <<"3">> \o LogSuffix),
             path_join(<<"d1">>, <<"z", "_", "1">> \o LogSuffix),
             path_join(<<"d1">>, <<"1", ".", "t", "x", "t">>),
             path_join(<<"d2">>, <<"1">> \o LogSuffix)}

OldContent == <<Lit("old")>>

----------------------------------------------------------------------------
(* State machine *)

Apply(W, operation) ==
    /\ op' = operation
    /\ fs_dir' = W.dir
    /\ fs_data' = W.data
    /\ handlers' = W.hs
    /\ logger_handlers' = W.lh
    /\ logger_level' = W.lvl
    /\ _file_handler' = W.fh
    /\ _log_file' = W.lf
    /\ _max_logs' = W.ml
    /\ debug_functions' = W.dbg
    /\ raised' = W.raised
    /\ calls' = W.calls
    /\ steps' = steps + 1

RECURSIVE Enumerate(_)
Enumerate(S) ==
    IF S = {} THEN <<>>
    ELSE LET x == CHOOSE y \in S : TRUE IN <<x>> \o Enumerate(S \ {x})

InitWith(files) ==
    LET order == Enumerate(files)
    IN /\ fs_dir = [p \in files |-> CHOOSE i \in 1..Len(order) : order[i] = p]
       /\ fs_data = [i \in 1..Len(order) |-> OldContent]
       /\ handlers = <<>>
       /\ logger_handlers = <<>>
       /\ logger_level = ERROR
       /\ _file_handler = NoHandler
       /\ _log_file = NoPath
       /\ _max_logs = -1
       /\ debug_functions = <<>>
       /\ raised = NoError
       /\ calls = <<>>
       /\ op = [name |-> "import"]
       /\ steps = 0

Init == InitWith({})

SetLogDirectory ==
    \E directory \in Directories, prefix \in Prefixes :
        /\ steps < MaxSteps
        /\ directory # NoPath => Len(handlers) < MaxHandlers
        /\ Apply(set_log_directory(World, directory, prefix),
                 [name |-> "set_log_directory", directory |-> directory, prefix |-> prefix])

Debug ==
    \E message \in {<<"m1">>} :
        /\ steps < MaxSteps
        /\ Apply(debug(World, message, NoExtra, Caller),
                 [name |-> "debug", message |-> message])

Info ==
    \E message \in {<<"m1">>}, extra_fields \in {UserId} :
        /\ steps < MaxSteps
        /\ Apply(info(World, message, extra_fields, Caller),
                 [name |-> "info", message |-> message])

Warning ==
    \E message \in {<<"m1">>} :
        /\ steps < MaxSteps
        /\ Apply(warning(World, message, NoExtra, Caller),
                 [name |-> "warning", message |-> message])

Error ==
    \E message \in Messages, extra_fields \in {NoExtra, ErrorType} :
        /\ (message = <<"m2">>) = (extra_fields = ErrorType)
        /\ steps < MaxSteps
        /\ Apply(error(World, message, extra_fields, Caller),
                 [name |-> "error", message |-> message])

Critical ==
    \E message \in {<<"m1">>} :
        /\ steps < MaxSteps
        /\ Apply(critical(World, message, NoExtra, Caller),
                 [name |-> "critical", message |-> message])

LogLevel ==
    \E val \in Levels :
        /\ steps < MaxSteps
        /\ Apply(log_level(World, val), [name |-> "log_level", val |-> val])

MaxLogs ==
    \E val \in {-2, 0, 1, 2} :
        /\ steps < MaxSteps
        /\ Apply(max_logs(World, val),
                 [name |-> "max_logs", val |-> val,
                  repeat |-> op.name = "max_logs" /\ op.val = val])

RegisterDebugFunction ==
    \E func \in Probes, log_limit \in {-1, CRITICAL} :
        /\ steps < MaxSteps
        /\ log_limit = CRITICAL => func = Probe1
        /\ Len(debug_functions) < MaxProbes
        /\ Apply(register_debug_function(World, func, log_limit),
                 [name |-> "register_debug_function", func |-> func.name])

RunDebugFunctions ==
    /\ steps < MaxSteps
    /\ Apply(run_debug_functions(World), [name |-> "run_debug_functions"])

CloseFileHandler ==
    /\ steps < MaxSteps
    /\ Apply(close_file_handler(World), [name |-> "close_file_handler"])

Next ==
    \/ SetLogDirectory
    \/ Debug
    \/ Info
    \/ Warning
    \/ Error
    \/ Critical
    \/ LogLevel
    \/ MaxLogs
    \/ RegisterDebugFunction
    \/ RunDebugFunctions
    \/ CloseFileHandler

Spec == Init /\ [][Next]_vars

\* Retention: the same program started in a directory that earlier sessions
\* have left files in, driven by the operations that create and delete files.
InitRetention == \E files \in SUBSET OldFiles : InitWith(files)

NextRetention ==
    \/ SetLogDirectory
    \/ MaxLogs
    \/ LogLevel

SpecRetention == InitRetention /\ [][NextRetention]_vars

\* Exit probes, with a probe whose state cannot be serialized among them.
RegisterUnserializable ==
    /\ steps < MaxSteps
    /\ Len(debug_functions) < MaxProbes
    /\ Apply(register_debug_function(World, Probe3, -1),
             [name |-> "register_debug_function", func |-> Probe3.name])

NextProbes ==
    \/ SetLogDirectory
    \/ LogLevel
    \/ RegisterDebugFunction
    \/ RegisterUnserializable
    \/ RunDebugFunctions

SpecProbes == Init /\ [][NextProbes]_vars

\* Log calls with keyword arguments, and records handed straight to the
\* file handler.
WarningExtra ==
    \E extra_fields \in {WarningType \o UserId, Conn \o UserId} :
        /\ steps < MaxSteps
        /\ Apply(warning(World, <<"m1">>, extra_fields, Caller),
                 [name |-> "warning", message |-> <<"m1">>, extra |-> extra_fields])

ErrorExtra ==
    \E extra_fields \in {ErrorType \o UserId, Conn, UserId \o Conn} :
        /\ steps < MaxSteps
        /\ Apply(error(World, <<"m1">>, extra_fields, Caller),
                 [name |-> "error", message |-> <<"m1">>, extra |-> extra_fields])

CriticalExtra ==
    \E extra_fields \in {ErrorType, NoExtra} :
        /\ steps < MaxSteps
        /\ Apply(critical(World, <<"m1">>, extra_fields, Caller),
                 [name |-> "critical", message |-> <<"m1">>, extra |-> extra_fields])

EmitRecord ==
    \E attrs \in BareAttrs :
        /\ steps < MaxSteps
        /\ _file_handler # NoHandler
        /\ Apply(emit(World, _file_handler,
                      [levelno |-> INFO, msg |-> <<"m1">>, name |-> "test_logger",
                       attrs |-> attrs]),
                 [name |-> "emit", attrs |-> attrs])

NextRecords ==
    \/ SetLogDirectory
    \/ LogLevel
    \/ WarningExtra
    \/ ErrorExtra
    \/ CriticalExtra
    \/ EmitRecord
    \/ CloseFileHandler

SpecRecords == Init /\ [][NextRecords]_vars

\* The exit hook over probes that override "object" or raise.
RegisterOverriding ==
    /\ steps < MaxSteps
    /\ Len(debug_functions) < MaxProbes
    /\ Apply(register_debug_function(World, Probe4, -1),
             [name |-> "register_debug_function", func |-> Probe4.name])

RegisterRaising ==
    /\ steps < MaxSteps
    /\ Len(debug_functions) < MaxProbes
    /\ Apply(register_debug_function(World, Probe5, -1),
             [name |-> "register_debug_function", func |-> Probe5.name])

NextExit ==
    \/ SetLogDirectory
    \/ RegisterDebugFunction
    \/ RegisterOverriding
    \/ RegisterRaising
    \/ RunDebugFunctions

SpecExit == Init /\ [][NextExit]_vars

\* Calls of functions decorated with log_function_call.
CallWrapped ==
    \E func \in WrappedFunctions :
        /\ steps < MaxSteps
        /\ Apply(wrapper(World, func),
                 [name |-> "wrapper", func |-> func, result |-> WrapperResult(func)])

NextDecorators ==
    \/ SetLogDirectory
    \/ LogLevel
    \/ CallWrapped

SpecDecorators == Init /\ [][NextDecorators]_vars

\* set_log_directory failing on the file system.
SetLogDirectoryFails ==
    \E prefix \in Prefixes, fault \in {"makedirs", "open"} :
        /\ steps < MaxSteps
        /\ Apply(set_log_directory_fails(World, <<"d1">>, prefix, fault),
                 [name |-> "set_log_directory", directory |-> <<"d1">>,
                  prefix |-> prefix, fault |-> fault])

NextFaults ==
    \/ SetLogDirectory
    \/ SetLogDirectoryFails
    \/ Error
    \/ CloseFileHandler

SpecFaults == Init /\ [][NextFaults]_vars

\* Console logging: the module imported outside unittest starts with a
\* console handler attached, inside unittest without one.
InitConsole ==
    \/ Init
    \/ /\ fs_dir = <<>>
       /\ fs_data = <<>>
       /\ handlers = <<NewHandler(NoPath, 0)>>
       /\ logger_handlers = <<1>>
       /\ logger_level = ERROR
       /\ _file_handler = NoHandler
       /\ _log_file = NoPath
       /\ _max_logs = -1
       /\ debug_functions = <<>>
       /\ raised = NoError
       /\ calls = <<>>
       /\ op = [name |-> "import"]
       /\ steps = 0

EnableConsoleLogging ==
    /\ steps < MaxSteps
    /\ Len(handlers) < MaxHandlers
    /\ Apply(enable_console_logging(World), [name |-> "enable_console_logging"])

DisableConsoleLogging ==
    /\ steps < MaxSteps
    /\ Apply(disable_console_logging(World), [name |-> "disable_console_logging"])

NextConsole ==
    \/ SetLogDirectory
    \/ EnableConsoleLogging
    \/ DisableConsoleLogging
    \/ Error
    \/ LogLevel

SpecConsole == InitConsole /\ [][NextConsole]_vars

\* Retention racing with another process that deletes one of the listed
\* files of the log directory.
MaxLogsRaced ==
    \E val \in {1, 2} :
        /\ steps < MaxSteps
        /\ _log_file # NoPath
        /\ \E old_log \in {p \in DOMAIN fs_dir :
                               /\ dirname(p) = dirname(_log_file)
                               /\ endswith(PathName(p), LogSuffix)} :
               Apply(max_logs_raced(World, val, {old_log}),
                     [name |-> "max_logs_raced", val |-> val, vanished |-> old_log])

NextRace ==
    \/ SetLogDirectory
    \/ MaxLogs
    \/ MaxLogsRaced

SpecRace == InitRetention /\ [][NextRace]_vars

----------------------------------------------------------------------------
(* Properties of the sink *)

HandlerIds == 1..Len(handlers)

\* The handler is the last one to have opened its file.
LastOpener(id) ==
    \A j \in HandlerIds : j > id => handlers[j].stream # handlers[id].stream

Finalized(id) == handlers[id].closed /\ LastOpener(id)

Document(id) == ParseDocument(fs_data[handlers[id].stream])

EntryOf(entry, record) ==
    /\ entry.message = record.msg
    /\ entry.level = getLevelName(record.levelno)
    /\ entry.logger = record.name
    /\ entry.caller_module = DictGet(record.attrs, "caller_module", "unknown")
    /\ entry.caller_func = DictGet(record.attrs, "caller_func", "unknown")
    /\ entry.caller_lineno = DictGet(record.attrs, "caller_lineno", 0)

\* C1: the logs array of a finalized file has exactly one element per record
\* emitted to the sink between its open and its close, in the order of
\* emission: nothing is lost, duplicated or reordered.
C1_LogsPreserved ==
    \A id \in HandlerIds :
        Finalized(id) =>
            LET doc == Document(id)
                appended == handlers[id].appended
            IN /\ doc.valid
               /\ Len(doc.logs) = Len(appended)
               /\ \A i \in 1..Len(appended) : EntryOf(doc.logs[i], appended[i])

C1_Witness ==
    \E id \in HandlerIds :
        /\ Finalized(id)
        /\ Len(handlers[id].appended) >= 3
        /\ handlers[id].appended[1].msg # handlers[id].appended[2].msg
        /\ handlers[id].appended[2].levelno # handlers[id].appended[3].levelno

\* A step that calls close() on the module's handler when it is already closed.
SecondClose ==
    /\ _file_handler # NoHandler
    /\ handlers[_file_handler].closed
    /\ op'.name \in {"close_file_handler", "run_debug_functions", "set_log_directory"}
    /\ handlers'[_file_handler].close_calls > handlers[_file_handler].close_calls
    /\ Len(handlers') = Len(handlers)

\* C2: close() is idempotent: a close() of an already closed sink (by the
\* exit hook, by set_log_directory(None) or from outside) leaves every file
\* with the content it had, and creates or removes no file.
C2_CloseIdempotent ==
    [][SecondClose => (fs_data' = fs_data /\ fs_dir' = fs_dir)]_vars

C2_Witness ==
    \E id \in HandlerIds :
        /\ handlers[id].close_calls >= 2
        /\ Len(handlers[id].appended) >= 1
        /\ Document(id).valid
        /\ op.name = "set_log_directory"
        /\ _file_handler = NoHandler

\* C3 (as claimed): once close() has returned for a sink, no later operation
\* changes the content of its file.
C3_FinalizedNeverWritten ==
    [][\A id \in HandlerIds :
          handlers[id].closed =>
              fs_data'[handlers[id].stream] = fs_data[handlers[id].stream]]_vars

\* C4 (as claimed): when the exit hook runs while a file sink is active,
\* every registered probe contributes its state entry and the sink is closed
\* when the hook returns, for every number of probes, zero included.
C4_ExitHookFinalizes ==
    [][(/\ op'.name = "run_debug_functions"
        /\ steps' = steps + 1
        /\ _file_handler # NoHandler
        /\ ~handlers[_file_handler].closed)
       => (/\ handlers'[_file_handler].closed
           /\ Len(handlers'[_file_handler].state_arrived)
                = Len(handlers[_file_handler].state_arrived) + Len(debug_functions))]_vars

\* C5: the state array of a finalized file has exactly one element per state
\* entry handed to the sink before close, in arrival order, whatever the
\* number of log records.
C5_StatePreserved ==
    \A id \in HandlerIds :
        Finalized(id) =>
            LET doc == Document(id)
                arrived == handlers[id].state_arrived
            IN /\ doc.valid
               /\ Len(doc.state) = Len(arrived)
               /\ \A i \in 1..Len(arrived) : doc.state[i] = arrived[i]

C5_Witness ==
    \E id \in HandlerIds :
        /\ Finalized(id)
        /\ Len(handlers[id].state_arrived) = 2
        /\ handlers[id].state_arrived[1] # handlers[id].state_arrived[2]
        /\ Len(handlers[id].appended) = 1

\* C6: closing a sink to which no record and no state entry was appended
\* yields a complete document with an empty logs array, an empty state array
\* and a diagnostics_state object.
C6_EmptyDocument ==
    \A id \in HandlerIds :
        (/\ Finalized(id)
         /\ handlers[id].appended = <<>>
         /\ handlers[id].state_arrived = <<>>)
        => LET doc == Document(id)
           IN /\ doc.valid
              /\ doc.logs = <<>>
              /\ doc.state = <<>>
              /\ doc.diagnostics_state.timestamp = timestamp
              /\ doc.diagnostics_state.log_level_name
                   = getLevelName(doc.diagnostics_state.log_level)
              /\ fs_data[handlers[id].stream]
                   = <<LogsOpen, StateOpen, DiagOpen,
                       dumps(doc.diagnostics_state), DocClose>>

C6_Witness ==
    \E id \in HandlerIds :
        /\ Finalized(id)
        /\ handlers[id].appended = <<>>
        /\ handlers[id].state_arrived = <<>>
        /\ raised = NoError
        /\ op.name \in {"close_file_handler", "set_log_directory"}

RECURSIVE Written(_)
Written(records) ==
    IF records = <<>> THEN <<>>
    ELSE IF Len(records) = 1 THEN <<format(records[1])>>
    ELSE Written(SubSeq(records, 1, Len(records) - 1))
         \o <<Comma, format(records[Len(records)])>>

\* C7: between open and close the file is exactly the opening marker
\* followed by the whole records appended so far, a comma before each but
\* the first, with the array and the object still open: it is not a
\* complete document before close().
C7_OpenFilePrefix ==
    \A id \in HandlerIds :
        ~handlers[id].closed =>
            /\ fs_data[handlers[id].stream]
                 = <<LogsOpen>> \o Written(handlers[id].appended)
            /\ ~Document(id).valid

C7_Witness ==
    \E id \in HandlerIds :
        /\ ~handlers[id].closed
        /\ Len(handlers[id].appended) >= 2

----------------------------------------------------------------------------
(* Properties of retention *)

IsLog(path) == endswith(PathName(path), LogSuffix)

LogFilesIn(dir, log_dir) == {p \in DOMAIN dir : dirname(p) = log_dir /\ IsLog(p)}

\* The files of S with fewer than n files of S before them in name order.
Smallest(S, n) ==
    {p \in S : Cardinality({q \in S : StrLess(PathName(q), PathName(p))}) < n}

Warnings(cs) == SelectSeq(cs, LAMBDA c : c.level = WARNING)

Removals(cs) ==
    SelectSeq(cs, LAMBDA c : c.level = INFO /\ c.message[1] = "Removed old log file: ")

\* C8 (as claimed): max_logs(0) behaves as max_logs(1): the stored limit
\* becomes 1, retention keeps one file, and exactly one warning is emitted.
C8_ZeroMeansOne ==
    [][(op'.name = "max_logs" /\ op'.val = 0 /\ steps' = steps + 1)
       => (/\ _max_logs' = 1
           /\ Len(Warnings(calls')) = 1
           /\ fs_dir' = max_logs(World, 1).dir)]_vars

\* C9: retention with a limit maxLogs >= 1 on a directory holding count
\* `.log` files deletes exactly the max(0, count - maxLogs) smallest of them
\* in file-name order and nothing else: every other file, with or without the
\* suffix, in this or another directory, stays as it is.
C9_DeletesOldest ==
    [][(/\ op'.name = "max_logs"
        /\ op'.val >= 1
        /\ steps' = steps + 1
        /\ _log_file # NoPath)
       => LET logs == LogFilesIn(fs_dir, dirname(_log_file))
              count == Cardinality(logs)
              excess == IF count > op'.val THEN count - op'.val ELSE 0
              kept == LogFilesIn(fs_dir', dirname(_log_file))
          IN /\ DOMAIN fs_dir' = DOMAIN fs_dir \ Smallest(logs, excess)
             /\ \A p \in DOMAIN fs_dir' : fs_dir'[p] = fs_dir[p]
             /\ Cardinality(kept) = IF count < op'.val THEN count ELSE op'.val
             /\ \A p \in kept, q \in logs \ kept : StrLess(PathName(q), PathName(p))
             /\ Len(Removals(calls')) = excess
             /\ _max_logs' = op'.val]_vars

C9_Witness ==
    /\ op.name = "max_logs"
    /\ op.val = 2
    /\ raised = NoError
    /\ Len(Removals(calls)) = 2
    /\ _log_file # NoPath
    /\ Cardinality(LogFilesIn(fs_dir, dirname(_log_file))) = 2
    /\ \E p \in DOMAIN fs_dir : dirname(p) = dirname(_log_file) /\ ~IsLog(p)
    /\ \E p \in DOMAIN fs_dir : dirname(p) # dirname(_log_file)

\* C10: max_logs with a negative value stores the unlimited sentinel -1,
\* runs no cleanup and deletes no file, whatever the files present and
\* whatever limit was in force.
C10_NegativeNeverDeletes ==
    [][(op'.name = "max_logs" /\ op'.val < 0 /\ steps' = steps + 1)
       => (/\ _max_logs' = -1
           /\ fs_dir' = fs_dir
           /\ fs_data' = fs_data
           /\ calls' = <<>>
           /\ raised' = NoError)]_vars

C10_Witness ==
    /\ op.name = "max_logs"
    /\ op.val < 0
    /\ _max_logs = -1
    /\ _log_file # NoPath
    /\ Cardinality(LogFilesIn(fs_dir, dirname(_log_file))) >= 3

----------------------------------------------------------------------------
(* Retention, continued *)

\* C11: retention is idempotent: max_logs called a second time in a row with
\* the same value, nothing else having happened in between, leaves the
\* directory and every file as they are and reports nothing.
C11_RetentionIdempotent ==
    [][(op'.name = "max_logs" /\ op'.repeat /\ op'.val >= 1)
       => /\ fs_dir' = fs_dir
          /\ fs_data' = fs_data
          /\ calls' = <<>>]_vars

\* max_logs(1) has just run for the second time in a row on a session whose
\* directory the first run has brought down to the limit.
C11_Witness ==
    /\ op.name = "max_logs" /\ op.repeat /\ op.val = 1
    /\ _log_file # NoPath /\ raised = NoError
    /\ Cardinality(LogFilesIn(fs_dir, dirname(_log_file))) = 1
    /\ calls = <<>>

\* C12 (as claimed): when another process removes one of the listed files
\* before retention unlinks it, retention raises nothing and every file it
\* selected for deletion is gone afterwards.
C12_RaceTolerated ==
    [][(op'.name = "max_logs_raced" /\ steps' = steps + 1)
       => LET logs == LogFilesIn(fs_dir, dirname(_log_file))
              count == Cardinality(logs)
              excess == IF count > op'.val THEN count - op'.val ELSE 0
          IN /\ raised' = NoError
             /\ Smallest(logs, excess) \cap DOMAIN fs_dir' = {}]_vars

\* C13 (as claimed): retention runs when the limit changes and when a new
\* session starts: after max_logs or after set_log_directory to a directory,
\* with a limit maxLogs >= 1 in force, the log directory holds at most
\* maxLogs `.log` files.
C13_RetentionOnBothEvents ==
    [][(/\ steps' = steps + 1
        /\ \/ op'.name = "max_logs"
           \/ op'.name = "set_log_directory" /\ op'.directory # NoPath
        /\ _max_logs' >= 1
        /\ _log_file' # NoPath
        /\ raised' = NoError)
       => Cardinality(LogFilesIn(fs_dir', dirname(_log_file'))) <= _max_logs']_vars

----------------------------------------------------------------------------
(* Exit probes *)

\* The probes of a registration list that run at the given logger level.
Eligible(funcs, level) == SelectSeq(funcs, LAMBDA d : d[2] <= level)

Serializable(d) == SelectSeq(d, LAMBDA pair : pair[2].ser)

\* C16 (as claimed): a value of a probe's state mapping that cannot be
\* serialized costs that one key only: the hook raises nothing, every probe
\* that runs hands the sink its entry without the unserializable keys, and
\* the sink is closed.
C16_SerializationRecovered ==
    [][(/\ op'.name = "run_debug_functions"
        /\ steps' = steps + 1
        /\ _file_handler # NoHandler
        /\ ~handlers[_file_handler].closed
        /\ debug_functions # <<>>)
       => LET ran == Eligible(debug_functions, logger_level)
              sink == handlers'[_file_handler]
          IN /\ raised' = NoError
             /\ sink.closed
             /\ sink.state_arrived
                  = handlers[_file_handler].state_arrived
                      \o [i \in 1..Len(ran) |-> Serializable(StateEntry(ran[i][1]))]]_vars

----------------------------------------------------------------------------
(* Records *)

\* The text written for the i-th record a handler appended: the opening
\* marker comes first and a comma precedes every record but the first.
WrittenEntry(id, i) == fs_data[handlers[id].stream][2 * i]

ExtraData(record) == DictGet(record.attrs, "extra_data", <<>>)

\* The record with key k taken out of its extra_data.
WithoutKey(record, k) ==
    [record EXCEPT !.attrs = DictSet(@, "extra_data", DictPop(ExtraData(record), k))]

\* C15: a record whose extra_data holds an unserializable value under key k
\* is written as the entry the same record without k produces: the fixed
\* fields are kept, extra_data holds exactly the serializable keys in their
\* order, and it is absent when none is left; the record is written.
C15_UnserializableKeyDropped ==
    \A id \in HandlerIds :
        LastOpener(id) =>
            \A i \in 1..Len(handlers[id].appended) :
                LET record == handlers[id].appended[i]
                    entry == WrittenEntry(id, i)
                    extra_data == ExtraData(record)
                    kept == Serializable(extra_data)
                IN /\ IsJson(entry)
                   /\ EntryOf(entry.v, record)
                   /\ \A j \in 1..Len(extra_data) :
                          ~extra_data[j][2].ser
                            => entry = format(WithoutKey(record, extra_data[j][1]))
                   /\ ("extra_data" \in DOMAIN entry.v) = (kept # <<>>)
                   /\ kept # <<>> => entry.v.extra_data = kept

\* One file holds a record written with its serializable key alone and a
\* record written with no extra_data, each having carried an unserializable
\* value.
C15_Witness ==
    \E id \in HandlerIds :
        /\ LastOpener(id)
        /\ \E i \in 1..Len(handlers[id].appended) :
              /\ ExtraData(handlers[id].appended[i]) = UserId \o Conn
              /\ WrittenEntry(id, i).v.extra_data = UserId
        /\ \E i \in 1..Len(handlers[id].appended) :
              /\ ExtraData(handlers[id].appended[i]) = Conn
              /\ "extra_data" \notin DOMAIN WrittenEntry(id, i).v

LevelOf(name) ==
    CASE name = "debug" -> DEBUG
      [] name = "info" -> INFO
      [] name = "warning" -> WARNING
      [] name = "error" -> ERROR
      [] name = "critical" -> CRITICAL

\* The keyword that names the class to raise or to warn with.
TypeKey(name) == IF name = "warning" THEN "warning_type" ELSE "error_type"

\* C18: error and critical called with error_type log the record and then
\* raise that class: when the exception propagates the record is already in
\* the open sink; without error_type nothing is raised. warning raises
\* nothing. error_type, and warning_type for warning, is taken out of the
\* extra fields: the record's extra_data is the other keywords alone.
C18_LogThenRaise ==
    [][(op'.name \in {"warning", "error", "critical"} /\ steps' = steps + 1)
       => LET key == TypeKey(op'.name)
              level == LevelOf(op'.name)
              given == HasKey(op'.extra, key)
          IN /\ raised' = IF given /\ op'.name # "warning"
                          THEN DictGet(op'.extra, key, Str(NoError)).v
                          ELSE NoError
             /\ calls' = <<[level |-> level, message |-> op'.message]>>
             /\ (/\ _file_handler # NoHandler
                 /\ ~handlers[_file_handler].closed
                 /\ level >= logger_level)
                => LET before == handlers[_file_handler].appended
                       after == handlers'[_file_handler].appended
                       record == after[Len(after)]
                   IN /\ Len(after) = Len(before) + 1
                      /\ record.levelno = level
                      /\ record.msg = op'.message
                      /\ ~HasKey(ExtraData(record), key)
                      /\ ExtraData(record) = DictPop(op'.extra, key)]_vars

\* error(error_type=ValueError) has raised ValueError with its record in the
\* open sink, after a warning(warning_type=UserWarning) whose record is there
\* too, each with user_id as its only extra key.
C18_Witness ==
    /\ op.name = "error"
    /\ raised = "ValueError"
    /\ HasKey(op.extra, "error_type")
    /\ _file_handler # NoHandler
    /\ ~handlers[_file_handler].closed
    /\ LET appended == handlers[_file_handler].appended
       IN /\ Len(appended) >= 2
          /\ appended[Len(appended)].levelno = ERROR
          /\ ExtraData(appended[Len(appended)]) = UserId
          /\ WrittenEntry(_file_handler, Len(appended)).v.extra_data = UserId
          /\ \E i \in 1..Len(appended) :
                /\ appended[i].levelno = WARNING
                /\ ExtraData(appended[i]) = UserId

\* C19: a record that lacks caller_module, caller_func or caller_lineno is
\* appended without an error and written with "unknown", "unknown" and 0 in
\* their place, the fields it has being written as they are; a file holding
\* such records closes into a well-formed document with one element each.
C19_MissingCallerFields ==
    /\ op.name = "emit" => raised = NoError
    /\ \A id \in HandlerIds :
          LastOpener(id) =>
              LET appended == handlers[id].appended
              IN /\ \A i \in 1..Len(appended) :
                       LET attrs == appended[i].attrs
                           entry == WrittenEntry(id, i).v
                       IN /\ entry.caller_module =
                               IF HasKey(attrs, "caller_module")
                               THEN DictGet(attrs, "caller_module", "") ELSE "unknown"
                          /\ entry.caller_func =
                               IF HasKey(attrs, "caller_func")
                               THEN DictGet(attrs, "caller_func", "") ELSE "unknown"
                          /\ entry.caller_lineno =
                               IF HasKey(attrs, "caller_lineno")
                               THEN DictGet(attrs, "caller_lineno", -1) ELSE 0
                 /\ handlers[id].closed
                      => /\ Document(id).valid
                         /\ Len(Document(id).logs) = Len(appended)
                         /\ \A i \in 1..Len(appended) :
                               Document(id).logs[i] = WrittenEntry(id, i).v

\* A finalized file holds a record that was handed to the handler with no
\* caller field at all.
C19_Witness ==
    \E id \in HandlerIds :
        /\ Finalized(id)
        /\ Document(id).valid
        /\ \E i \in 1..Len(handlers[id].appended) :
              /\ handlers[id].appended[i].attrs = <<>>
              /\ Document(id).logs[i].caller_module = "unknown"
              /\ Document(id).logs[i].caller_func = "unknown"
              /\ Document(id).logs[i].caller_lineno = 0

\* C17: with file logging active, a log call at a level below the log level
\* in force leaves the file as it is, and a call at that level or above
\* appends exactly one record, the call's own; no other file changes. The
\* level in force is the one set by the latest log_level call.
C17_LevelFiltering ==
    [][(/\ op'.name \in {"debug", "info", "warning", "error", "critical"}
        /\ steps' = steps + 1
        /\ _file_handler # NoHandler
        /\ ~handlers[_file_handler].closed)
       => LET level == LevelOf(op'.name)
              stream == handlers[_file_handler].stream
              before == handlers[_file_handler].appended
              after == handlers'[_file_handler].appended
          IN /\ \A s \in DOMAIN fs_data \ {stream} : fs_data'[s] = fs_data[s]
             /\ IF level >= logger_level
                THEN /\ Len(after) = Len(before) + 1
                     /\ after[Len(after)].levelno = level
                     /\ after[Len(after)].msg = op'.message
                     /\ fs_data'[stream]
                          = fs_data[stream]
                              \o (IF before = <<>> THEN <<>> ELSE <<Comma>>)
                              \o <<format(after[Len(after)])>>
                ELSE /\ after = before
                     /\ fs_data'[stream] = fs_data[stream]]_vars

\* debug has just been called and filtered at a level raised above DEBUG,
\* the last record of the open file being a DEBUG record written while the
\* level was DEBUG.
C17_Witness ==
    /\ op.name = "debug"
    /\ logger_level > DEBUG
    /\ _file_handler # NoHandler
    /\ ~handlers[_file_handler].closed
    /\ LET appended == handlers[_file_handler].appended
       IN /\ appended # <<>>
          /\ appended[Len(appended)].levelno = DEBUG
          /\ appended[Len(appended)].attrs = <<<<"caller_module", Caller.module>>,
                                               <<"caller_func", Caller.func>>,
                                               <<"caller_lineno", Caller.lineno>>>>

----------------------------------------------------------------------------
(* Diagnostics snapshot *)

\* The handler is the last one to have opened its file, after the step.
LastOpenerAfter(id) ==
    \A j \in 1..Len(handlers') : j > id => handlers'[j].stream # handlers'[id].stream

\* C20: the diagnostics snapshot of a finalized file is taken when close
\* runs: its max_logs and log_level are the values in force at that time,
\* whatever they were when the file was opened, and a later max_logs or
\* log_level call leaves every finalized file as it is.
C20_SnapshotAtClose ==
    [][steps' = steps + 1
       => /\ \A id \in HandlerIds :
                (~handlers[id].closed /\ handlers'[id].closed /\ LastOpenerAfter(id))
                => LET doc == ParseDocument(fs_data'[handlers[id].stream])
                   IN /\ doc.valid
                      /\ doc.diagnostics_state.max_logs = _max_logs
                      /\ doc.diagnostics_state.log_level = logger_level
                      /\ doc.diagnostics_state.log_level_name = getLevelName(logger_level)
          /\ op'.name \in {"max_logs", "log_level"}
                => \A id \in HandlerIds :
                       Finalized(id)
                       => fs_data'[handlers[id].stream] = fs_data[handlers[id].stream]]_vars

\* A finalized file carries max_logs = 2 and log_level = DEBUG, both set
\* after it was opened, and the configuration has been changed since.
C20_Witness ==
    /\ op.name \in {"max_logs", "log_level"}
    /\ \E id \in HandlerIds :
          /\ Finalized(id)
          /\ Document(id).valid
          /\ Document(id).diagnostics_state.max_logs = 2
          /\ Document(id).diagnostics_state.log_level = DEBUG
          /\ _max_logs # 2 \/ logger_level # DEBUG

----------------------------------------------------------------------------
(* State entries *)

Keys(d) == {d[i][1] : i \in 1..Len(d)}

\* entry is {"object": owner} overlaid with the probe's output.
IsOverlay(entry, func) ==
    LET output == IF func.output.kind = "str"
                  THEN <<<<"message", Str(func.output.s)>>>>
                  ELSE func.output.d
    IN /\ Keys(entry) = {"object"} \cup Keys(output)
       /\ Len(entry) = Cardinality(Keys(entry))
       /\ \A i \in 1..Len(output) :
              DictGet(entry, output[i][1], Str("")) = output[i][2]
       /\ ~HasKey(output, "object")
              => DictGet(entry, "object", Str("")) = Str(ObjectName(func))

\* C21: each state entry the exit hook hands to the sink is the mapping
\* {"object": owner name} overlaid with the probe's output: every key of the
\* output carries the probe's value, "object" included, the owner name
\* stands under "object" otherwise, and a string output stands under
\* "message"; the finalized file holds these entries.
C21_ProbeOutputWins ==
    [][(/\ op'.name = "run_debug_functions"
        /\ steps' = steps + 1
        /\ _file_handler # NoHandler
        /\ ~handlers[_file_handler].closed
        /\ raised' = NoError)
       => LET ran == Eligible(debug_functions, logger_level)
              before == handlers[_file_handler].state_arrived
              after == handlers'[_file_handler].state_arrived
              doc == ParseDocument(fs_data'[handlers[_file_handler].stream])
          IN /\ Len(after) = Len(before) + Len(ran)
             /\ \A i \in 1..Len(ran) :
                    /\ IsOverlay(after[Len(before) + i], ran[i][1])
                    /\ doc.state[Len(before) + i] = after[Len(before) + i]]_vars

\* A finalized file holds the entry of a probe that returned its own
\* "object" and the entry of a probe that returned a string.
C21_Witness ==
    /\ op.name = "run_debug_functions"
    /\ raised = NoError
    /\ _file_handler # NoHandler
    /\ Finalized(_file_handler)
    /\ LET state == Document(_file_handler).state
       IN /\ Len(state) = 2
          /\ \E i \in 1..2 :
                /\ DictGet(state[i], "object", Str("")) = Str("custom")
                /\ DictGet(state[i], "hits", Str("")) = Str("9")
          /\ \E i \in 1..2 :
                /\ DictGet(state[i], "object", Str("")) = Str("summary")
                /\ DictGet(state[i], "message", Str("")) = Str("Simple string output")

\* C28 (as claimed): a probe that raises costs its own entry only: the hook
\* raises nothing, the probes that return hand the sink their entries, and
\* the sink is closed.
C28_RaisingProbeSkipped ==
    [][(/\ op'.name = "run_debug_functions"
        /\ steps' = steps + 1
        /\ _file_handler # NoHandler
        /\ ~handlers[_file_handler].closed
        /\ debug_functions # <<>>)
       => LET ran == SelectSeq(Eligible(debug_functions, logger_level),
                               LAMBDA d : d[1].output.kind # "raise")
              sink == handlers'[_file_handler]
          IN /\ raised' = NoError
             /\ sink.closed
             /\ sink.state_arrived
                  = handlers[_file_handler].state_arrived
                      \o [i \in 1..Len(ran) |-> StateEntry(ran[i][1])]]_vars

----------------------------------------------------------------------------
(* Decorators *)

Call(level, message) == [level |-> level, message |-> message]

IsReturned(call) == Len(call.message) >= 3 /\ call.message[3] = " returned: "

\* The last n records the active handler appended, as level and message.
LastAppended(n) ==
    LET appended == handlers[_file_handler].appended
    IN [i \in 1..n |->
          Call(appended[Len(appended) - n + i].levelno,
               appended[Len(appended) - n + i].msg)]

\* C22: a call of a function wrapped by log_function_call logs 'Calling
\* function', the arguments and the keyword arguments, in this order and at
\* DEBUG, before the function runs; when the function returns, one more
\* DEBUG record carries the returned value, the value is handed back and
\* nothing is raised; when it raises, one ERROR record names the function,
\* the same exception is raised and no 'returned' record is logged. With
\* file logging active at DEBUG the four records are the file's last four.
C22_WrapperLogs ==
    op.name = "wrapper"
    => LET func == op.func
           before == <<Call(DEBUG, <<"Calling function: ", func.name>>),
                       Call(DEBUG, <<"Arguments: ", func.args>>),
                       Call(DEBUG, <<"Keyword arguments: ", func.kwargs>>)>>
       IN /\ Len(calls) = 4
          /\ SubSeq(calls, 1, 3) = before
          /\ func.outcome.kind = "return"
                => /\ calls[4] = Call(DEBUG, <<"Function ", func.name, " returned: ",
                                               func.outcome.value>>)
                   /\ op.result = func.outcome.value
                   /\ raised = NoError
          /\ func.outcome.kind = "raise"
                => /\ calls[4].level = ERROR
                   /\ calls[4].message[2] = func.name
                   /\ calls[4].message[3] = " raised an exception: "
                   /\ raised = func.outcome.e
                   /\ \A i \in 1..4 : ~IsReturned(calls[i])
          /\ (/\ _file_handler # NoHandler
              /\ ~handlers[_file_handler].closed
              /\ logger_level = DEBUG)
                => /\ Len(handlers[_file_handler].appended) >= 4
                   /\ LastAppended(4) = calls

\* A wrapped function has raised ValueError with file logging active at
\* DEBUG: the file ends with the three call records and the error record.
C22_Witness ==
    /\ op.name = "wrapper"
    /\ op.func.outcome.kind = "raise"
    /\ raised = "ValueError"
    /\ _file_handler # NoHandler
    /\ ~handlers[_file_handler].closed
    /\ logger_level = DEBUG
    /\ LastAppended(4) = calls
    /\ calls[4].level = ERROR

----------------------------------------------------------------------------
(* Handlers attached to the logger *)

\* The handler writes to a file (it has a file name), not to the console.
IsFileHandler(id) == handlers[id].baseFilename # NoPath

AttachedFileHandlers ==
    {i \in 1..Len(logger_handlers) : IsFileHandler(logger_handlers[i])}

\* C23 (as claimed): at most one JSON file handler is attached to the
\* logger, and none is attached after set_log_directory(None).
C23_AtMostOneAttached ==
    /\ Cardinality(AttachedFileHandlers) <= 1
    /\ (op.name = "set_log_directory" /\ op.directory = NoPath)
          => AttachedFileHandlers = {}

----------------------------------------------------------------------------
(* Retention and the session in progress *)

\* C24 (as claimed): after max_logs with a limit of at least 1, the file the
\* active handler is writing still exists under its path, whatever `.log`
\* files the directory held.
C24_CurrentFileKept ==
    (/\ op.name = "max_logs"
     /\ op.val >= 1
     /\ _file_handler # NoHandler
     /\ ~handlers[_file_handler].closed)
    => /\ _log_file \in DOMAIN fs_dir
       /\ fs_dir[_log_file] = handlers[_file_handler].stream

\* C25 (as claimed): max_logs with a value of at least 1, called while no
\* log file is configured, raises nothing and deletes nothing.
C25_NoLogFile ==
    [][(/\ op'.name = "max_logs"
        /\ op'.val >= 1
        /\ steps' = steps + 1
        /\ _log_file = NoPath)
       => /\ raised' = NoError
          /\ fs_dir' = fs_dir]_vars

----------------------------------------------------------------------------
(* Switching the log file *)

IsEnabledRecord(record) ==
    record.msg[1] = "File logging enabled. Logs are saved to: "

\* C26: when set_log_directory moves to a new file, the previous handler is
\* closed and detached before the new one is attached: the only file
\* handler still open is the active one, no other open handler is attached,
\* so a record goes to one file at most; the 'File logging enabled'
\* record of a file is written to that file alone, as its first record; and
\* the previous file, once superseded, is a finalized document holding the
\* records it had received.
C26_SwitchOrder ==
    \A id \in HandlerIds :
        /\ ~handlers[id].closed => id = _file_handler
        /\ \A i \in 1..Len(handlers[id].appended) :
              IsEnabledRecord(handlers[id].appended[i])
                => /\ i = 1
                   /\ Tail(handlers[id].appended[i].msg) = handlers[id].baseFilename
        /\ (id # _file_handler /\ LastOpener(id))
              => /\ Document(id).valid
                 /\ Len(Document(id).logs) = Len(handlers[id].appended)

\* The log file has been switched: the previous file is finalized with its
\* records, and the new file starts with its own 'File logging enabled'
\* record followed by a later record.
C26_Witness ==
    \E old \in HandlerIds :
        /\ _file_handler # NoHandler
        /\ old < _file_handler
        /\ Finalized(old)
        /\ handlers[old].stream # handlers[_file_handler].stream
        /\ Len(handlers[old].appended) >= 2
        /\ ~handlers[_file_handler].closed
        /\ Len(handlers[_file_handler].appended) >= 2
        /\ IsEnabledRecord(handlers[_file_handler].appended[1])
        /\ WrittenEntry(_file_handler, 1).v.message
             = handlers[_file_handler].appended[1].msg

\* C27 (as claimed): the path recorded in the diagnostics snapshot of a
\* finalized file is the path of that file, whichever call closed it.
C27_SnapshotPath ==
    \A id \in HandlerIds :
        Finalized(id)
          => Document(id).diagnostics_state.log_file = handlers[id].baseFilename

----------------------------------------------------------------------------
(* The log file and its handler *)

\* C29 (as claimed): get_log_file returns a path exactly when a file
\* handler is stored, also after a set_log_directory call that failed with
\* an I/O error.
C29_LogFileIffHandler ==
    (get_log_file(World) # NoPath) = (_file_handler # NoHandler)

----------------------------------------------------------------------------
(* Console handlers *)

AttachedConsoleHandlers(hs, lh) ==
    {i \in 1..Len(lh) : IsConsoleHandler(hs[lh[i]])}

AttachedFiles(hs, lh) == SelectSeq(lh, LAMBDA id : ~IsConsoleHandler(hs[id]))

\* C30: at most one console handler is attached to the logger at any time,
\* exactly one after enable_console_logging and none after
\* disable_console_logging; and neither call touches file logging: the
\* stored file handler and log file, the file handlers attached and their
\* order, every handler object that existed, and every file stay as they
\* were.
C30_ConsoleHandlers ==
    [][steps' = steps + 1
       => /\ Cardinality(AttachedConsoleHandlers(handlers', logger_handlers')) <= 1
          /\ op'.name = "enable_console_logging"
                => Cardinality(AttachedConsoleHandlers(handlers', logger_handlers')) = 1
          /\ op'.name = "disable_console_logging"
                => AttachedConsoleHandlers(handlers', logger_handlers') = {}
          /\ op'.name \in {"enable_console_logging", "disable_console_logging"}
                => /\ _file_handler' = _file_handler
                   /\ _log_file' = _log_file
                   /\ AttachedFiles(handlers', logger_handlers')
                        = AttachedFiles(handlers, logger_handlers)
                   /\ \A id \in HandlerIds : handlers'[id] = handlers[id]
                   /\ fs_dir' = fs_dir
                   /\ fs_data' = fs_data
                   /\ logger_level' = logger_level]_vars

\* enable_console_logging has replaced an earlier console handler while a
\* file handler holding a record is active: one console handler and the
\* file handler are attached.
C30_Witness ==
    /\ op.name = "enable_console_logging"
    /\ _file_handler # NoHandler
    /\ ~handlers[_file_handler].closed
    /\ handlers[_file_handler].appended # <<>>
    /\ AttachedFiles(handlers, logger_handlers) = <<_file_handler>>
    /\ Cardinality(AttachedConsoleHandlers(handlers, logger_handlers)) = 1
    /\ Cardinality({id \in HandlerIds : IsConsoleHandler(handlers[id])}) = 2

====
